---- MODULE Spec2Model ----
(***************************************************************************)
(* Daily Activity Tracker: the two Storage backends (localStorage and the  *)
(* remote user document), and the Analytics functions that read them.      *)
(*                                                                         *)
(* A JavaScript object is a function from its property names to values, so *)
(* an absent property is a name outside the DOMAIN.  A calendar date       *)
(* 'YYYY-MM-DD' is the number of its day; instants are clock ticks, with   *)
(* TicksPerDay ticks in a day; the local time zone is tz ticks ahead of    *)
(* UTC.                                                                    *)
(***************************************************************************)
EXTENDS Integers, Sequences, FiniteSets, TLC

VARIABLES
    backend,    \* which Storage module the page loaded: "sync" or "async"
    authed,     \* window.auth.currentUser is set
    offline,    \* how many Storage calls were made with no user signed in
    ls,         \* localStorage: the two keys of the tracker
    doc,        \* the remote document users/<uid>
    now,        \* the clock, in ticks since the epoch (UTC)
    tz,         \* offset of local time from UTC, in ticks
    last,       \* the last call: operation, arguments, returned value
    ui,         \* the state of the UI module: what is being edited, the forms
    inflight    \* the Storage calls of the asynchronous UI that have not returned

vars == <<backend, authed, offline, ls, doc, now, tz, last, ui, inflight>>

----------------------------------------------------------------------------
(* Bounds *)

MaxNow == 1           \* the clock stops here
MaxOffline == 1       \* Storage calls made while signed out
MaxLen == 2           \* longest collection the operations build
TicksPerDay == 2      \* clock ticks in one calendar day

----------------------------------------------------------------------------
(* JavaScript values *)

Has(o, k) == k \in DOMAIN o

\* {...a, ...b}
Spread(a, b) ==
    [k \in (DOMAIN a) \cup (DOMAIN b) |-> IF k \in DOMAIN b THEN b[k] ELSE a[k]]

\* a string-valued property used as a condition: undefined and '' are falsy
Truthy(o, k) == Has(o, k) /\ o[k] # ""

\* o.k === v for a string v (undefined is never equal to a string)
FieldIs(o, k, v) == Has(o, k) /\ o[k] = v

\* a.id === b.id, where either id may be undefined
SameId(a, b) ==
    IF Has(a, "id") /\ Has(b, "id") THEN a.id = b.id
    ELSE ~Has(a, "id") /\ ~Has(b, "id")

\* ids.includes(a.id), for ids == s.map(x => x.id)
IncludesId(s, a) == \E i \in 1..Len(s) : SameId(s[i], a)

\* Array.prototype.findIndex, 1-based; 0 for -1
FindIndex(s, id) ==
    IF \E i \in 1..Len(s) : FieldIs(s[i], "id", id)
    THEN CHOOSE i \in 1..Len(s) :
            /\ FieldIs(s[i], "id", id)
            /\ \A j \in 1..(i - 1) : ~FieldIs(s[j], "id", id)
    ELSE 0

\* returned values
RBool(b) == [kind |-> "boolean", val |-> b]
RObj(o) == [kind |-> "object", val |-> o]
RNum(n) == [kind |-> "number", val |-> n]
RNull == [kind |-> "null"]
RUndef == [kind |-> "undefined"]
RThrow == [kind |-> "throw"]

\* a localStorage entry: getItem gives null for a key never set
Absent == [present |-> FALSE, val |-> <<>>]
Stored(v) == [present |-> TRUE, val |-> v]

----------------------------------------------------------------------------
(* Storage, synchronous backend (localStorage) *)

saveActivities(l, activities) == [l EXCEPT !.activities = Stored(activities)]

getActivitiesSync(l) ==
    IF l.activities.present THEN l.activities.val ELSE <<>>

saveActions(l, actions) == [l EXCEPT !.actions = Stored(actions)]

defaultActions ==
    << [id |-> "exercise", name |-> "Exercise", type |-> "good",
        category |-> "Physical", fields |-> <<"exerciseType", "duration", "notes">>],
       [id |-> "diet-healthy", name |-> "Healthy Food", type |-> "good",
        category |-> "Nutrition", fields |-> <<"notes">>],
       [id |-> "diet-unhealthy", name |-> "Unhealthy Food", type |-> "bad",
        category |-> "Nutrition", fields |-> <<"notes">>],
       [id |-> "work", name |-> "Work Time", type |-> "neutral",
        category |-> "Work", fields |-> <<"startTime", "endTime">>] >>

\* getActions returns the stored catalog, or seeds and returns the defaults
getActionsSync(l) ==
    IF l.actions.present THEN l.actions.val ELSE defaultActions

\* localStorage after a getActions call
getActionsSyncLs(l) ==
    IF l.actions.present THEN l ELSE saveActions(l, defaultActions)

addActivitySync(l, t, activity) ==
    LET activities == getActivitiesSync(l)
        stored == Spread(activity, [id |-> ToString(t), timestamp |-> t])
    IN  [ls |-> saveActivities(l, Append(activities, stored)), ret |-> RObj(stored)]

\* the filter with its test inverted
deleteActivitySyncKeepsMatching(l, id) ==
    LET activities == getActivitiesSync(l)
        Keep(a) == FieldIs(a, "id", id)
    IN  [ls |-> saveActivities(l, SelectSeq(activities, Keep)), ret |-> RUndef]

deleteActivitySync(l, id) ==
    LET activities == getActivitiesSync(l)
        Keep(a) == ~FieldIs(a, "id", id)
    IN  [ls |-> saveActivities(l, SelectSeq(activities, Keep)), ret |-> RUndef]

updateActivitySync(l, id, updatedActivity) ==
    LET activities == getActivitiesSync(l)
        index == FindIndex(activities, id)
        originalActivity == activities[index]
        pinned == IF Has(originalActivity, "timestamp")
                  THEN [id |-> originalActivity.id, timestamp |-> originalActivity.timestamp]
                  ELSE [id |-> originalActivity.id]
        merged == Spread(Spread(originalActivity, updatedActivity), pinned)
        mergedActivity ==
            IF Has(originalActivity, "timestamp") THEN merged
            ELSE [k \in (DOMAIN merged) \ {"timestamp"} |-> merged[k]]
    IN  IF index # 0
        THEN [ls |-> saveActivities(l, [activities EXCEPT ![index] = mergedActivity]),
              ret |-> RObj(mergedActivity)]
        ELSE [ls |-> l, ret |-> RNull]

clearAllDataSync(l) ==
    [ls |-> [l EXCEPT !.activities = Absent], ret |-> RUndef]

addActionSync(l, t, action) ==
    LET actions == getActionsSync(l)
        stored == IF Truthy(action, "id") THEN action
                  ELSE Spread(action, [id |-> "action-" \o ToString(t)])
    IN  [ls |-> saveActions(l, Append(actions, stored)), ret |-> RObj(stored)]

updateActionSync(l, id, updatedAction) ==
    LET actions == getActionsSync(l)
        index == FindIndex(actions, id)
        merged == Spread(actions[index], updatedAction)
    IN  IF index # 0
        THEN [ls |-> saveActions(l, [actions EXCEPT ![index] = merged]),
              ret |-> RObj(merged)]
        ELSE [ls |-> getActionsSyncLs(l), ret |-> RNull]

deleteActionSync(l, id) ==
    LET activities == getActivitiesSync(l)
        hasActivities == \E i \in 1..Len(activities) :
                            \/ FieldIs(activities[i], "actionId", id)
                            \/ FieldIs(activities[i], "type", id)
        actions == getActionsSync(l)
        Keep(a) == ~FieldIs(a, "id", id)
    IN  IF hasActivities
        THEN [ls |-> l, ret |-> RBool(FALSE)]
        ELSE [ls |-> saveActions(l, SelectSeq(actions, Keep)), ret |-> RBool(TRUE)]

exportDataSync(l, t) ==
    [ls |-> getActionsSyncLs(l),
     ret |-> RObj([activities |-> getActivitiesSync(l),
                   actions |-> getActionsSync(l),
                   version |-> "1.0",
                   exportDate |-> t])]

\* data is undefined, or an object that may lack either array
Undefined == [undefined |-> TRUE]

importDataSync(l, data, replace) ==
    IF Has(data, "undefined") \/ ~Has(data, "activities") \/ ~Has(data, "actions")
    THEN [ls |-> l, ret |-> RBool(FALSE)]
    ELSE IF replace
    THEN [ls |-> saveActions(saveActivities(l, data.activities), data.actions),
          ret |-> RBool(TRUE)]
    ELSE LET existingActivities == getActivitiesSync(l)
             existingActions == getActionsSync(l)
             NewActivity(a) == ~IncludesId(existingActivities, a)
             NewAction(a) == ~IncludesId(existingActions, a)
         IN  [ls |-> saveActions(
                        saveActivities(l, existingActivities \o SelectSeq(data.activities, NewActivity)),
                        existingActions \o SelectSeq(data.actions, NewAction)),
              ret |-> RBool(TRUE)]

\* the map callback without the skip of migrated activities
migrateOneOverwrites(activity) ==
    IF FieldIs(activity, "type", "exercise")
    THEN Spread(activity, [actionId |-> "exercise"])
    ELSE IF FieldIs(activity, "type", "diet")
         THEN Spread(activity, [actionId |-> IF FieldIs(activity, "foodQuality", "healthy")
                                             THEN "diet-healthy" ELSE "diet-unhealthy"])
    ELSE IF FieldIs(activity, "type", "work")
         THEN Spread(activity, [actionId |-> "work"])
    ELSE activity

migrateOne(activity) ==
    IF Truthy(activity, "actionId") THEN activity
    ELSE IF FieldIs(activity, "type", "exercise")
         THEN Spread(activity, [actionId |-> "exercise"])
    ELSE IF FieldIs(activity, "type", "diet")
         THEN Spread(activity, [actionId |-> IF FieldIs(activity, "foodQuality", "healthy")
                                             THEN "diet-healthy" ELSE "diet-unhealthy"])
    ELSE IF FieldIs(activity, "type", "work")
         THEN Spread(activity, [actionId |-> "work"])
    ELSE activity

migrateData(l) ==
    LET activities == getActivitiesSync(l)
        migrated == \E i \in 1..Len(activities) : ~Truthy(activities[i], "actionId")
        updatedActivities == [i \in 1..Len(activities) |-> migrateOne(activities[i])]
    IN  IF migrated THEN saveActivities(l, updatedActivities) ELSE l

----------------------------------------------------------------------------
(* Storage, asynchronous backend (remote document, localStorage as cache) *)

\* the remote document before its first setDoc
NoDoc == [exists |-> FALSE]

\* getUserDoc() is null without a signed-in user
getUserDoc(user) == user

\* setDoc(docRef, data, {merge: true}): the named fields are replaced
setDoc(d, data) ==
    [exists |-> TRUE, data |-> IF d.exists THEN Spread(d.data, data) ELSE data]

\* persist that writes the document and leaves the cache as it was
persistSkipsCache(l, d, user, data) ==
    [ls |-> l, doc |-> IF getUserDoc(user) THEN setDoc(d, data) ELSE d]

persist(l, d, user, data) ==
    LET l1 == IF Has(data, "activities")
              THEN [l EXCEPT !.activities = Stored(data.activities)] ELSE l
        l2 == IF Has(data, "actions")
              THEN [l1 EXCEPT !.actions = Stored(data.actions)] ELSE l1
    IN  [ls |-> l2, doc |-> IF getUserDoc(user) THEN setDoc(d, data) ELSE d]

getActivitiesAsync(l, d, user) ==
    IF ~getUserDoc(user)
    THEN IF l.activities.present THEN l.activities.val ELSE <<>>
    ELSE IF d.exists /\ Has(d.data, "activities") THEN d.data.activities ELSE <<>>

getActionsAsync(l, d, user) ==
    IF ~getUserDoc(user)
    THEN IF l.actions.present THEN l.actions.val ELSE <<>>
    ELSE IF d.exists /\ Has(d.data, "actions") THEN d.data.actions ELSE <<>>

\* the store after persist(data), with the value the call then returns
Persisted(l, d, user, data, ret) ==
    LET p == persist(l, d, user, data)
    IN  [ls |-> p.ls, doc |-> p.doc, ret |-> ret]

addActivityAsync(l, d, user, t, activity) ==
    LET activities == getActivitiesAsync(l, d, user)
        stored == Spread(activity, [id |-> ToString(t), timestamp |-> t])
    IN  Persisted(l, d, user, [activities |-> Append(activities, stored)], RObj(stored))

deleteActivityAsync(l, d, user, id) ==
    LET activities == getActivitiesAsync(l, d, user)
        Keep(a) == ~FieldIs(a, "id", id)
    IN  Persisted(l, d, user, [activities |-> SelectSeq(activities, Keep)], RUndef)

addActionAsync(l, d, user, t, action) ==
    LET actions == getActionsAsync(l, d, user)
        stored == Spread(action, [id |-> ToString(t)])
    IN  Persisted(l, d, user, [actions |-> Append(actions, stored)], RObj(stored))

deleteActionAsync(l, d, user, id) ==
    LET actions == getActionsAsync(l, d, user)
        Keep(a) == ~FieldIs(a, "id", id)
    IN  Persisted(l, d, user, [actions |-> SelectSeq(actions, Keep)], RUndef)

\* the returned promise resolves to undefined; the snapshot goes to a download
exportDataAsync(l, d, user) ==
    [ls |-> l, doc |-> d, ret |-> RUndef,
     file |-> [activities |-> getActivitiesAsync(l, d, user),
               actions |-> getActionsAsync(l, d, user)]]

importDataAsync(l, d, user, jsonData, merge) ==
    LET currentActivities == IF merge THEN getActivitiesAsync(l, d, user) ELSE <<>>
        currentActions == IF merge THEN getActionsAsync(l, d, user) ELSE <<>>
    IN  IF Has(jsonData, "undefined") \/ ~Has(jsonData, "activities")
        THEN [ls |-> l, doc |-> d, ret |-> RThrow]
        ELSE Persisted(l, d, user,
                       [activities |-> currentActivities \o jsonData.activities,
                        actions |-> IF Has(jsonData, "actions")
                                    THEN jsonData.actions ELSE currentActions],
                       RBool(TRUE))

updateActionAsync(l, d, user, id, updatedData) ==
    LET actions == getActionsAsync(l, d, user)
        index == FindIndex(actions, id)
        merged == Spread(Spread(actions[index], updatedData), [id |-> id])
    IN  IF index # 0
        THEN Persisted(l, d, user, [actions |-> [actions EXCEPT ![index] = merged]], RUndef)
        ELSE [ls |-> l, doc |-> d, ret |-> RUndef]

updateActivityAsync(l, d, user, id, updatedData) ==
    LET activities == getActivitiesAsync(l, d, user)
        index == FindIndex(activities, id)
        merged == Spread(Spread(activities[index], updatedData), [id |-> id])
    IN  IF index # 0
        THEN Persisted(l, d, user, [activities |-> [activities EXCEPT ![index] = merged]], RUndef)
        ELSE [ls |-> l, doc |-> d, ret |-> RUndef]

clearAllDataAsync(l, d, user) ==
    Persisted(l, d, user, [activities |-> <<>>, actions |-> <<>>], RUndef)

----------------------------------------------------------------------------
(* Dates *)

\* the local calendar day of an instant: getFullYear/getMonth/getDate
LocalDay(t, z) == (t + z) \div TicksPerDay

\* new Date('YYYY-MM-DD'): a date-only string is midnight UTC of that day
ParseDate(day) == day * TicksPerDay

\* today.setHours(0, 0, 0, 0): local midnight of the instant's day, as an instant
LocalMidnight(t, z) == LocalDay(t, z) * TicksPerDay - z

----------------------------------------------------------------------------
(* What the callers pass *)

NoArg == [none |-> TRUE]

\* handleActivitySubmit builds {actionId, date}; the date input defaults to today
DraftActionIds == {"exercise"}
ActivityDrafts == {[actionId |-> a, date |-> LocalDay(now, tz)] : a \in DraftActionIds}

\* handleActionFormSubmit builds {name, type, fields}; a caller may supply an id
ActionDrafts ==
    { [name |-> "Read", type |-> "good", fields |-> <<"notes">>] }

\* a patch as handleActivitySubmit builds it, and one that carries id and timestamp
ActivityPatches ==
    { [id |-> "9", timestamp |-> 9, actionId |-> "work", date |-> LocalDay(now, tz)] }

ActionPatches ==
    { [id |-> "9", name |-> "Run", type |-> "bad"] }

\* the ids the callers name
ActivityIds == {"1", "none"}
ActionIds == {"exercise", "none"}


\* backup files
FullPayload ==
    [activities |-> << [id |-> "1", actionId |-> "exercise", date |-> 0, timestamp |-> 1] >>,
     actions |-> << [id |-> "exercise", name |-> "Gym", type |-> "good", fields |-> <<>>],
                    [id |-> "7", name |-> "Sleep", type |-> "neutral", fields |-> <<>>] >>]
NoActionsPayload == [activities |-> FullPayload.activities]
NoActivitiesPayload == [actions |-> FullPayload.actions]
Payloads == {FullPayload, NoActionsPayload, NoActivitiesPayload, Undefined}

----------------------------------------------------------------------------
(* The collections as the backend in use returns them *)

ActivitiesOf(l, d) ==
    IF backend = "sync" THEN getActivitiesSync(l) ELSE getActivitiesAsync(l, d, authed)

ActionsOf(l, d) ==
    IF backend = "sync" THEN getActionsSync(l) ELSE getActionsAsync(l, d, authed)

Activities == ActivitiesOf(ls, doc)
Actions == ActionsOf(ls, doc)

\* the collections stay within the bounds of the model
Fits(l, d) ==
    /\ Len(ActivitiesOf(l, d)) <= MaxLen
    /\ Len(ActionsOf(l, d)) <= MaxLen + Len(defaultActions)
    /\ Len(IF l.activities.present THEN l.activities.val ELSE <<>>) <= MaxLen
    /\ Len(IF l.actions.present THEN l.actions.val ELSE <<>>) <= MaxLen + Len(defaultActions)

----------------------------------------------------------------------------
(* The state machine *)

\* the record of a call, before its arguments are filled in
\* (at: the clock when an Analytics function was called; io: how the remote
\* write of the call went)
Call(op) ==
    [op |-> op, id |-> "", arg |-> NoArg, replace |-> FALSE, src |-> "", file |-> NoArg,
     at |-> 0, io |-> "ok"]

\* the UI module as its script leaves it: nothing edited, no form, no file
NoUI ==
    [editingActivity |-> "", formAction |-> "", opened |-> "",
     editingAction |-> "", actionForm |-> "hidden", openedAs |-> "",
     importData |-> NoArg, importShown |-> FALSE]

Init ==
    /\ backend \in {"sync", "async"}
    /\ authed = FALSE
    /\ offline = 0
    /\ ls = [activities |-> Absent, actions |-> Absent]
    /\ doc = NoDoc
    /\ now = 0
    /\ tz = 0
    /\ last = [call |-> Call("load"), ret |-> RUndef]
    /\ ui = NoUI
    /\ inflight = <<>>

\* a call returns: the store it leaves and the record of the call
Return(call, l, d, ret) ==
    /\ Fits(l, d)
    /\ ls' = l
    /\ doc' = d
    /\ last' = [call |-> call, ret |-> ret]
    /\ IF backend = "async" /\ ~authed
       THEN offline < MaxOffline /\ offline' = offline + 1
       ELSE offline' = offline
    /\ UNCHANGED <<backend, authed, now, tz, ui, inflight>>

Tick ==
    /\ now < MaxNow
    /\ now' = now + 1
    /\ UNCHANGED <<backend, authed, offline, ls, doc, tz, last, ui, inflight>>

SignIn ==
    /\ backend = "async"
    /\ ~authed
    /\ authed' = TRUE
    /\ last' = [call |-> Call("signIn"), ret |-> RUndef]
    /\ UNCHANGED <<backend, offline, ls, doc, now, tz, ui, inflight>>

\* signOut, then window.location.reload()
SignOut ==
    /\ backend = "async"
    /\ authed
    /\ authed' = FALSE
    /\ last' = [call |-> Call("signOut"), ret |-> RUndef]
    /\ UNCHANGED <<backend, offline, ls, doc, now, tz, ui, inflight>>

\* the page is loaded again: the synchronous module runs migrateData
Load ==
    /\ backend = "sync"
    /\ Return(Call("load"), migrateData(ls), doc, RUndef)

GetActionsSync ==
    /\ backend = "sync"
    /\ Return(Call("getActions"), getActionsSyncLs(ls), doc, RObj(getActionsSync(ls)))

AddActivitySync ==
    /\ backend = "sync"
    /\ \E activity \in ActivityDrafts :
          LET r == addActivitySync(ls, now, activity)
          IN  Return([Call("addActivity") EXCEPT !.arg = activity], r.ls, doc, r.ret)

DeleteActivitySync ==
    /\ backend = "sync"
    /\ \E id \in ActivityIds :
          LET r == deleteActivitySync(ls, id)
          IN  Return([Call("deleteActivity") EXCEPT !.id = id], r.ls, doc, r.ret)

UpdateActivitySync ==
    /\ backend = "sync"
    /\ \E id \in ActivityIds, patch \in ActivityPatches :
          LET r == updateActivitySync(ls, id, patch)
          IN  Return([Call("updateActivity") EXCEPT !.id = id, !.arg = patch],
                     r.ls, doc, r.ret)

ClearAllDataSync ==
    /\ backend = "sync"
    /\ LET r == clearAllDataSync(ls)
       IN  Return(Call("clearAllData"), r.ls, doc, r.ret)

AddActionSync ==
    /\ backend = "sync"
    /\ \E action \in ActionDrafts :
          LET r == addActionSync(ls, now, action)
          IN  Return([Call("addAction") EXCEPT !.arg = action], r.ls, doc, r.ret)

UpdateActionSync ==
    /\ backend = "sync"
    /\ \E id \in ActionIds, patch \in ActionPatches :
          LET r == updateActionSync(ls, id, patch)
          IN  Return([Call("updateAction") EXCEPT !.id = id, !.arg = patch],
                     r.ls, doc, r.ret)

DeleteActionSync ==
    /\ backend = "sync"
    /\ \E id \in ActionIds :
          LET r == deleteActionSync(ls, id)
          IN  Return([Call("deleteAction") EXCEPT !.id = id], r.ls, doc, r.ret)

\* handleExportData serializes the returned object into the download
ExportDataSync ==
    /\ backend = "sync"
    /\ LET r == exportDataSync(ls, now)
       IN  Return([Call("exportData") EXCEPT !.file = r.ret.val], r.ls, doc, r.ret)

\* what importData can be given: a backup file, the value the exportData call
\* just before returned, or the file that call downloaded
ImportSources ==
    {[src |-> "file", data |-> p] : p \in Payloads}
    \cup (IF last.call.op = "exportData"
          THEN { [src |-> "export",
                  data |-> IF last.ret.kind = "object" THEN last.ret.val ELSE Undefined],
                 [src |-> "download", data |-> last.call.file] }
          ELSE {})

ImportDataSync ==
    /\ backend = "sync"
    /\ \E in \in ImportSources, replace \in BOOLEAN :
          LET r == importDataSync(ls, in.data, replace)
          IN  Return([Call("importData") EXCEPT !.arg = in.data, !.replace = replace,
                                                !.src = in.src],
                     r.ls, doc, r.ret)

\* a read: nothing is written, nothing is seeded
GetActionsAsync ==
    /\ backend = "async"
    /\ Return(Call("getActions"), ls, doc, RObj(getActionsAsync(ls, doc, authed)))

AddActivityAsync ==
    /\ backend = "async"
    /\ \E activity \in ActivityDrafts :
          LET r == addActivityAsync(ls, doc, authed, now, activity)
          IN  Return([Call("addActivity") EXCEPT !.arg = activity], r.ls, r.doc, r.ret)

DeleteActivityAsync ==
    /\ backend = "async"
    /\ \E id \in ActivityIds :
          LET r == deleteActivityAsync(ls, doc, authed, id)
          IN  Return([Call("deleteActivity") EXCEPT !.id = id], r.ls, r.doc, r.ret)

UpdateActivityAsync ==
    /\ backend = "async"
    /\ \E id \in ActivityIds, patch \in ActivityPatches :
          LET r == updateActivityAsync(ls, doc, authed, id, patch)
          IN  Return([Call("updateActivity") EXCEPT !.id = id, !.arg = patch],
                     r.ls, r.doc, r.ret)

ClearAllDataAsync ==
    /\ backend = "async"
    /\ LET r == clearAllDataAsync(ls, doc, authed)
       IN  Return(Call("clearAllData"), r.ls, r.doc, r.ret)

AddActionAsync ==
    /\ backend = "async"
    /\ \E action \in ActionDrafts :
          LET r == addActionAsync(ls, doc, authed, now, action)
          IN  Return([Call("addAction") EXCEPT !.arg = action], r.ls, r.doc, r.ret)

UpdateActionAsync ==
    /\ backend = "async"
    /\ \E id \in ActionIds, patch \in ActionPatches :
          LET r == updateActionAsync(ls, doc, authed, id, patch)
          IN  Return([Call("updateAction") EXCEPT !.id = id, !.arg = patch],
                     r.ls, r.doc, r.ret)

DeleteActionAsync ==
    /\ backend = "async"
    /\ \E id \in ActionIds :
          LET r == deleteActionAsync(ls, doc, authed, id)
          IN  Return([Call("deleteAction") EXCEPT !.id = id], r.ls, r.doc, r.ret)

ExportDataAsync ==
    /\ backend = "async"
    /\ LET r == exportDataAsync(ls, doc, authed)
       IN  Return([Call("exportData") EXCEPT !.file = r.file], r.ls, r.doc, r.ret)

ImportDataAsync ==
    /\ backend = "async"
    /\ \E in \in ImportSources, replace \in BOOLEAN :
          LET r == importDataAsync(ls, doc, authed, in.data, ~replace)
          IN  Return([Call("importData") EXCEPT !.arg = in.data, !.replace = replace,
                                                !.src = in.src],
                     r.ls, r.doc, r.ret)

Next ==
    \/ Tick
    \/ SignIn
    \/ SignOut
    \/ Load
    \/ GetActionsSync
    \/ AddActivitySync
    \/ DeleteActivitySync
    \/ UpdateActivitySync
    \/ ClearAllDataSync
    \/ AddActionSync
    \/ UpdateActionSync
    \/ DeleteActionSync
    \/ ExportDataSync
    \/ ImportDataSync
    \/ GetActionsAsync
    \/ AddActivityAsync
    \/ DeleteActivityAsync
    \/ UpdateActivityAsync
    \/ ClearAllDataAsync
    \/ AddActionAsync
    \/ UpdateActionAsync
    \/ DeleteActionAsync
    \/ ExportDataAsync
    \/ ImportDataAsync

Spec == Init /\ [][Next]_vars

----------------------------------------------------------------------------
(* The asynchronous backend when the remote write fails *)

\* the asynchronous operation a call record names, run by a signed-in user
AsyncOutcome(call, l, d, t) ==
    CASE call.op = "getActions" ->
            [ls |-> l, doc |-> d, ret |-> RObj(getActionsAsync(l, d, TRUE))]
      [] call.op = "addActivity" -> addActivityAsync(l, d, TRUE, t, call.arg)
      [] call.op = "deleteActivity" -> deleteActivityAsync(l, d, TRUE, call.id)
      [] call.op = "updateActivity" -> updateActivityAsync(l, d, TRUE, call.id, call.arg)
      [] call.op = "clearAllData" -> clearAllDataAsync(l, d, TRUE)
      [] call.op = "addAction" -> addActionAsync(l, d, TRUE, t, call.arg)
      [] call.op = "updateAction" -> updateActionAsync(l, d, TRUE, call.id, call.arg)
      [] call.op = "deleteAction" -> deleteActionAsync(l, d, TRUE, call.id)
      [] call.op = "exportData" -> exportDataAsync(l, d, TRUE)
      [] call.op = "importData" -> importDataAsync(l, d, TRUE, call.arg, ~call.replace)

StoreOps ==
    {"getActions", "addActivity", "deleteActivity", "updateActivity", "clearAllData",
     "addAction", "updateAction", "deleteAction", "exportData", "importData"}

\* the collections a mutating call passes to persist
Writes(op) ==
    CASE op \in {"addActivity", "deleteActivity", "updateActivity"} -> {"activities"}
      [] op \in {"addAction", "deleteAction", "updateAction"} -> {"actions"}
      [] op \in {"importData", "clearAllData"} -> {"activities", "actions"}

MutatingOps ==
    {"addActivity", "deleteActivity", "updateActivity", "addAction", "deleteAction",
     "updateAction", "importData", "clearAllData"}

\* an update call names a stored record (any other call: TRUE)
UpdateFinds(call) ==
    /\ call.op = "updateActivity" => FindIndex(Activities, call.id) # 0
    /\ call.op = "updateAction" => FindIndex(Actions, call.id) # 0

\* persist leaves the store like this when setDoc rejects, but for writing
\* the cache before the await
persistRejectedCacheFirst(l, d, user, data) ==
    [ls |-> persist(l, d, user, data).ls, doc |-> d]

\* persist when setDoc rejects: the await throws, the cache lines do not run
persistRejected(l, d, user, data) == [ls |-> l, doc |-> d]

\* the mutating calls the callers make
MutatingCalls ==
    {[Call("addActivity") EXCEPT !.arg = a] : a \in ActivityDrafts}
    \cup {[Call("deleteActivity") EXCEPT !.id = id] : id \in ActivityIds}
    \cup {[Call("updateActivity") EXCEPT !.id = id, !.arg = p] :
              id \in ActivityIds, p \in ActivityPatches}
    \cup {Call("clearAllData")}
    \cup {[Call("addAction") EXCEPT !.arg = a] : a \in ActionDrafts}
    \cup {[Call("updateAction") EXCEPT !.id = id, !.arg = p] :
              id \in ActionIds, p \in ActionPatches}
    \cup {[Call("deleteAction") EXCEPT !.id = id] : id \in ActionIds}
    \cup {[Call("importData") EXCEPT !.arg = in.data, !.replace = replace, !.src = in.src] :
              in \in ImportSources, replace \in BOOLEAN}

\* a mutating call of a signed-in session gets to persist, and setDoc rejects:
\* the call rejects with the error
RemoteWriteFails ==
    /\ backend = "async"
    /\ authed
    /\ \E call \in MutatingCalls :
          LET r == AsyncOutcome(call, ls, doc, now)
          IN  /\ r.ret.kind # "throw"
              /\ UpdateFinds(call)
              /\ LET data == [c \in Writes(call.op) |-> r.doc.data[c]]
                     p == persistRejected(ls, doc, authed, data)
                 IN  Return([call EXCEPT !.io = "setDoc rejects"], p.ls, p.doc, RThrow)

InitAsync == Init /\ backend = "async"

NextRemoteFailure ==
    \/ Tick
    \/ SignIn
    \/ SignOut
    \/ GetActionsAsync
    \/ AddActivityAsync
    \/ DeleteActivityAsync
    \/ UpdateActivityAsync
    \/ ClearAllDataAsync
    \/ AddActionAsync
    \/ UpdateActionAsync
    \/ DeleteActionAsync
    \/ ExportDataAsync
    \/ ImportDataAsync
    \/ RemoteWriteFails

SpecRemoteFailure == InitAsync /\ [][NextRemoteFailure]_vars

----------------------------------------------------------------------------
(* Analytics (reads the synchronous Storage) *)

\* an ascending sort of distinct dates: [...new Set(dates)].sort()
RECURSIVE SortAsc(_)
SortAsc(S) ==
    IF S = {} THEN <<>>
    ELSE LET m == CHOOSE x \in S : \A y \in S : x <= y
         IN  <<m>> \o SortAsc(S \ {m})

\* Math.ceil(a / b) for b > 0
Ceil(a, b) == -((-a) \div b)

\* the filter of calculateActionStreak, with its legacy fallback
MatchesStreak(activity, actionId) ==
    \/ FieldIs(activity, "actionId", actionId)
    \/ (FieldIs(activity, "type", "exercise") /\ actionId = "exercise")

actionDates(activities, actionId) ==
    SortAsc({activities[i].date :
                i \in {j \in 1..Len(activities) :
                          MatchesStreak(activities[j], actionId) /\ Has(activities[j], "date")}})

\* the loop with a step back of any number of days counted as consecutive
RECURSIVE countAcrossGaps(_, _)
countAcrossGaps(dates, i) ==
    IF i > 1 /\ Ceil(ParseDate(dates[i]) - ParseDate(dates[i - 1]), TicksPerDay) >= 1
    THEN 1 + countAcrossGaps(dates, i - 1)
    ELSE 1

\* the loop from index i down: one more day while the step back is exactly one day
RECURSIVE countConsecutive(_, _)
countConsecutive(dates, i) ==
    IF i > 1 /\ Ceil(ParseDate(dates[i]) - ParseDate(dates[i - 1]), TicksPerDay) = 1
    THEN 1 + countConsecutive(dates, i - 1)
    ELSE 1

calculateActionStreak(activities, actionId, t, z) ==
    LET dates == actionDates(activities, actionId)
        today == LocalDay(t, z)
        actionToday == \E i \in 1..Len(dates) : dates[i] = today
        lastActionDate == dates[Len(dates)]
        yesterdayStr == LocalDay(t, z) - 1
    IN  IF Len(activities) = 0 THEN 0
        ELSE IF Len(dates) = 0 THEN 0
        ELSE IF ~actionToday /\ lastActionDate # yesterdayStr THEN 0
        ELSE countConsecutive(dates, Len(dates))

\* the activities of the action that carry a date, in stored order
relevantActivities(activities, actionId) ==
    LET Relevant(a) == FieldIs(a, "actionId", actionId) /\ Has(a, "date")
    IN  SelectSeq(activities, Relevant)

\* element 0 after the stable sort by timestamp, newest first
mostRecent(relevant) ==
    relevant[CHOOSE i \in 1..Len(relevant) :
                /\ \A j \in 1..Len(relevant) : relevant[j].timestamp <= relevant[i].timestamp
                /\ \A j \in 1..(i - 1) : relevant[j].timestamp < relevant[i].timestamp]

calculateDaysSinceLastOccurrence(activities, actionId, t, z) ==
    LET relevant == relevantActivities(activities, actionId)
        lastDate == ParseDate(mostRecent(relevant).date)
        today == LocalMidnight(t, z)
    IN  IF Len(relevant) = 0 THEN 0
        ELSE (today - lastDate) \div TicksPerDay

\* the width of the counting window, in days
WindowDays == 30

\* counts[actionId]: activity.actionId || activity.type
countKey(activity) ==
    IF Truthy(activity, "actionId") THEN activity.actionId
    ELSE IF Has(activity, "type") THEN activity.type
    ELSE "undefined"

\* thirtyDaysAgo.setDate(now.getDate() - 30) keeps the time of day of now
recentActivities(activities, t, z) ==
    LET thirtyDaysAgo == t - WindowDays * TicksPerDay
        Recent(a) == /\ Has(a, "date")
                     /\ ParseDate(a.date) >= thirtyDaysAgo
                     /\ ParseDate(a.date) <= t
    IN  SelectSeq(activities, Recent)

getActivityCountsLast30Days(activities, t, z) ==
    LET recent == recentActivities(activities, t, z)
        keys == {countKey(recent[i]) : i \in 1..Len(recent)}
    IN  [k \in keys |-> Cardinality({i \in 1..Len(recent) : countKey(recent[i]) = k})]

----------------------------------------------------------------------------
(* The Analytics functions over stored collections *)

MaxStored == 3        \* longest activity collection the analytics are given
MaxAdvance == 2       \* how many ticks the clock advances

\* the day the clock starts in (UTC); the stored dates lie around it
FirstDay == WindowDays + 2

\* the local time zones: behind UTC, UTC, ahead of UTC
TimeZones == {-1, 0, 1}

AnalyticsActionIds == {"exercise", "work"}

\* a timestamp later than the clock reaches, as an imported record may carry
LaterStamp == (FirstDay + 2) * TicksPerDay + MaxAdvance

StoredRecords ==
    {[id |-> "a", actionId |-> "exercise", date |-> d, timestamp |-> 1] :
        d \in {FirstDay - WindowDays - 1, FirstDay - WindowDays,
               FirstDay - 2, FirstDay - 1, FirstDay, FirstDay + 1}}
    \cup {[id |-> "b", actionId |-> "exercise", date |-> FirstDay - 1, timestamp |-> LaterStamp],
          [id |-> "c", type |-> "exercise", date |-> FirstDay - 2, timestamp |-> 1],
          [id |-> "e", actionId |-> "exercise", timestamp |-> 1]}

RECURSIVE SeqsUpTo(_, _)
SeqsUpTo(S, n) ==
    IF n = 0 THEN {<<>>}
    ELSE LET shorter == SeqsUpTo(S, n - 1)
         IN  shorter \cup {Append(q, x) : q \in shorter, x \in S}

InitAnalytics ==
    /\ backend = "sync"
    /\ authed = FALSE
    /\ offline = 0
    /\ \E activities \in SeqsUpTo(StoredRecords, MaxStored) :
          ls = [activities |-> Stored(activities), actions |-> Absent]
    /\ doc = NoDoc
    /\ now \in {ParseDate(FirstDay) + k : k \in 0..(TicksPerDay - 1)}
    /\ tz \in TimeZones
    /\ last = [call |-> Call("load"), ret |-> RUndef]
    /\ ui = NoUI
    /\ inflight = <<>>

\* an Analytics call returns; it writes nothing
Computed(call, ret) ==
    /\ last' = [call |-> call, ret |-> ret]
    /\ UNCHANGED <<backend, authed, offline, ls, doc, now, tz, ui, inflight>>

Advance ==
    /\ now < ParseDate(FirstDay) + MaxAdvance
    /\ now' = now + 1
    /\ UNCHANGED <<backend, authed, offline, ls, doc, tz, last, ui, inflight>>

CalculateActionStreak ==
    \E actionId \in AnalyticsActionIds :
        Computed([Call("calculateActionStreak") EXCEPT !.id = actionId, !.at = now],
                 RNum(calculateActionStreak(getActivitiesSync(ls), actionId, now, tz)))

CalculateDaysSinceLastOccurrence ==
    \E actionId \in AnalyticsActionIds :
        Computed([Call("calculateDaysSinceLastOccurrence") EXCEPT !.id = actionId, !.at = now],
                 RNum(calculateDaysSinceLastOccurrence(getActivitiesSync(ls), actionId, now, tz)))

GetActivityCountsLast30Days ==
    Computed([Call("getActivityCountsLast30Days") EXCEPT !.at = now],
             RObj(getActivityCountsLast30Days(getActivitiesSync(ls), now, tz)))

\* handleActivitySubmit with the date input left at today
AddActivityToday ==
    /\ Len(getActivitiesSync(ls)) < MaxStored
    /\ \E actionId \in AnalyticsActionIds :
          LET activity == [actionId |-> actionId, date |-> LocalDay(now, tz)]
              r == addActivitySync(ls, now, activity)
          IN  /\ ls' = r.ls
              /\ last' = [call |-> [Call("addActivity") EXCEPT !.arg = activity], ret |-> r.ret]
              /\ UNCHANGED <<backend, authed, offline, doc, now, tz, ui, inflight>>

NextAnalytics ==
    \/ Advance
    \/ CalculateActionStreak
    \/ CalculateDaysSinceLastOccurrence
    \/ GetActivityCountsLast30Days
    \/ AddActivityToday

SpecAnalytics == InitAnalytics /\ [][NextAnalytics]_vars

----------------------------------------------------------------------------
(* The dashboard: every Analytics function, over work records as well *)

RStr(v) == [kind |-> "string", val |-> v]

\* getGoodHabitActions / getBadHabitActions: Storage.getActions(), filtered
habitActions(l, type) ==
    LET OfType(action) == FieldIs(action, "type", type)
    IN  [ls |-> getActionsSyncLs(l), ret |-> RObj(SelectSeq(getActionsSync(l), OfType))]

getGoodHabitActions(l) == habitActions(l, "good")
getBadHabitActions(l) == habitActions(l, "bad")

\* a time of day 'HH:MM' after split(':') and parseInt: hours and minutes
MinutesPerDay == 1440

\* endDate - startDate in minutes, the end moved to the next day when before the start
minutesWorked(activity) ==
    LET start == activity.startTime.h * 60 + activity.startTime.m
        end == activity.endTime.h * 60 + activity.endTime.m
    IN  IF end < start THEN end + MinutesPerDay - start ELSE end - start

RECURSIVE totalMinutes(_)
totalMinutes(work) ==
    IF work = <<>> THEN 0 ELSE minutesWorked(Head(work)) + totalMinutes(Tail(work))

\* (hours).toFixed(1), as a number of tenths of an hour
ToFixed1(minutes, n) == (minutes * 20 + 60 * n) \div (120 * n)

\* undefined.split(':') raises a TypeError
calculateAverageWorkHours(activities) ==
    LET IsWork(activity) ==
            FieldIs(activity, "actionId", "work") \/ FieldIs(activity, "type", "work")
        workActivities == SelectSeq(activities, IsWork)
    IN  IF Len(workActivities) = 0 THEN RNum(0)
        ELSE IF \E i \in 1..Len(workActivities) :
                    ~Has(workActivities[i], "startTime") \/ ~Has(workActivities[i], "endTime")
             THEN RThrow
        ELSE RStr(ToFixed1(totalMinutes(workActivities), Len(workActivities)))

\* the activities the dashboard is shown over
DashboardRecords ==
    { [id |-> "w", actionId |-> "work", date |-> FirstDay, timestamp |-> 1,
       startTime |-> [h |-> 9, m |-> 0], endTime |-> [h |-> 17, m |-> 30]],
      [id |-> "n", actionId |-> "work", date |-> FirstDay, timestamp |-> 1,
       startTime |-> [h |-> 22, m |-> 0], endTime |-> [h |-> 6, m |-> 0]],
      [id |-> "l", type |-> "work", date |-> FirstDay - 1, timestamp |-> 1,
       startTime |-> [h |-> 8, m |-> 0], endTime |-> [h |-> 8, m |-> 0]],
      [id |-> "x", actionId |-> "work", date |-> FirstDay, timestamp |-> 1],
      [id |-> "g", actionId |-> "exercise", date |-> FirstDay, timestamp |-> 1],
      [id |-> "u", actionId |-> "exercise", timestamp |-> 1] }

InitDashboard ==
    /\ backend = "sync"
    /\ authed = FALSE
    /\ offline = 0
    /\ \E entry \in {Absent} \cup {Stored(a) : a \in SeqsUpTo(DashboardRecords, MaxStored)},
          actions \in {Absent, Stored(defaultActions)} :
          ls = [activities |-> entry, actions |-> actions]
    /\ doc = NoDoc
    /\ now = ParseDate(FirstDay)
    /\ tz \in TimeZones
    /\ last = [call |-> Call("load"), ret |-> RUndef]
    /\ ui = NoUI
    /\ inflight = <<>>

\* an Analytics call returns, with localStorage as its Storage calls leave it
Shown(call, l, ret) ==
    /\ ls' = l
    /\ last' = [call |-> [call EXCEPT !.at = now], ret |-> ret]
    /\ UNCHANGED <<backend, authed, offline, doc, now, tz, ui, inflight>>

ShowActionStreak ==
    \E actionId \in AnalyticsActionIds :
        Shown([Call("calculateActionStreak") EXCEPT !.id = actionId], ls,
              RNum(calculateActionStreak(getActivitiesSync(ls), actionId, now, tz)))

ShowDaysSinceLastOccurrence ==
    \E actionId \in AnalyticsActionIds :
        Shown([Call("calculateDaysSinceLastOccurrence") EXCEPT !.id = actionId], ls,
              RNum(calculateDaysSinceLastOccurrence(getActivitiesSync(ls), actionId, now, tz)))

ShowActivityCounts ==
    Shown(Call("getActivityCountsLast30Days"), ls,
          RObj(getActivityCountsLast30Days(getActivitiesSync(ls), now, tz)))

GetGoodHabitActions ==
    LET r == getGoodHabitActions(ls)
    IN  Shown(Call("getGoodHabitActions"), r.ls, r.ret)

GetBadHabitActions ==
    LET r == getBadHabitActions(ls)
    IN  Shown(Call("getBadHabitActions"), r.ls, r.ret)

CalculateAverageWorkHours ==
    Shown(Call("calculateAverageWorkHours"), ls,
          calculateAverageWorkHours(getActivitiesSync(ls)))

NextDashboard ==
    \/ ShowActionStreak
    \/ ShowDaysSinceLastOccurrence
    \/ ShowActivityCounts
    \/ GetGoodHabitActions
    \/ GetBadHabitActions
    \/ CalculateAverageWorkHours

SpecDashboard == InitDashboard /\ [][NextDashboard]_vars

----------------------------------------------------------------------------
(* Legacy activities: records of the type-based format, without actionId *)

MaxLegacy == 2        \* longest activity collection with legacy records

LegacyRecords ==
    { [id |-> "L1", type |-> "exercise", date |-> 0, timestamp |-> 1],
      [id |-> "L2", type |-> "diet", foodQuality |-> "healthy", date |-> 0, timestamp |-> 1],
      [id |-> "L3", type |-> "diet", foodQuality |-> "unhealthy", date |-> 0, timestamp |-> 1],
      [id |-> "L4", type |-> "work", date |-> 0, timestamp |-> 1],
      [id |-> "L5", type |-> "sleep", date |-> 0, timestamp |-> 1],
      [id |-> "L6", actionId |-> "", type |-> "exercise", date |-> 0, timestamp |-> 1],
      [id |-> "M1", actionId |-> "work", type |-> "exercise", date |-> 0, timestamp |-> 1] }

\* a backup of the type-based format, with the default catalog
LegacyPayloads ==
    {[activities |-> <<r>>, actions |-> defaultActions] : r \in LegacyRecords}

DefaultActionIds == {defaultActions[i].id : i \in 1..Len(defaultActions)}

\* localStorage as an earlier version of the page left it; the script has not run
InitLegacy ==
    /\ backend = "sync"
    /\ authed = FALSE
    /\ offline = 0
    /\ \E activities \in SeqsUpTo(LegacyRecords, MaxLegacy) :
          ls = [activities |-> Stored(activities), actions |-> Absent]
    /\ doc = NoDoc
    /\ now = 0
    /\ tz = 0
    /\ last = [call |-> Call("closed"), ret |-> RUndef]
    /\ ui = NoUI
    /\ inflight = <<>>

\* the Storage script has run (migrateData at load) and its API can be called
Loaded == last.call.op # "closed"

LegacyReturn(call, l, ret) ==
    /\ Len(getActivitiesSync(l)) <= MaxLegacy
    /\ ls' = l
    /\ last' = [call |-> call, ret |-> ret]
    /\ UNCHANGED <<backend, authed, offline, doc, now, tz, ui, inflight>>

\* the page is loaded: migrateData()
LoadLegacy ==
    LegacyReturn(Call("load"), migrateData(ls), RUndef)

ImportLegacy ==
    /\ Loaded
    /\ \E data \in LegacyPayloads, replace \in BOOLEAN :
          LET r == importDataSync(ls, data, replace)
          IN  LegacyReturn([Call("importData") EXCEPT !.arg = data, !.replace = replace],
                           r.ls, r.ret)

DeleteDefaultAction ==
    /\ Loaded
    /\ \E id \in DefaultActionIds :
          LET r == deleteActionSync(ls, id)
          IN  LegacyReturn([Call("deleteAction") EXCEPT !.id = id], r.ls, r.ret)

NextLegacy ==
    \/ LoadLegacy
    \/ ImportLegacy
    \/ DeleteDefaultAction

SpecLegacy == InitLegacy /\ [][NextLegacy]_vars

----------------------------------------------------------------------------
(* The synchronous UI: the activity entry form *)

\* array.find(a => a.id === id), for an id that findIndex finds
FindById(s, id) == s[FindIndex(s, id)]

\* setupActionSelect: the options are rebuilt and the first one is selected
firstOption(actions) == IF Len(actions) = 0 THEN "" ELSE actions[1].id

\* generateActionForm: the hidden action-id of the form it builds for the
\* selected action; no form for no selection or an unknown action
generatedForm(actions, selected) ==
    IF selected # "" /\ FindIndex(actions, selected) # 0 THEN selected ELSE ""

Includes(fields, f) == \E i \in 1..Len(fields) : fields[i] = f

\* handleActivitySubmit: the activity object collected from the form of action
collected(action, date) ==
    LET fields == IF Has(action, "fields") THEN action.fields ELSE <<>>
        base == [actionId |-> action.id, date |-> date]
        d == IF Includes(fields, "duration") THEN Spread(base, [duration |-> "30"]) ELSE base
        st == IF Includes(fields, "startTime") THEN Spread(d, [startTime |-> "09:00"]) ELSE d
        e == IF Includes(fields, "endTime") THEN Spread(st, [endTime |-> "17:00"]) ELSE st
    IN  IF Includes(fields, "notes") \/ Len(fields) = 0
        THEN Spread(e, [notes |-> ""]) ELSE e

\* a handler of the UI returns
Handled(call, l, ret, u) ==
    /\ Len(getActivitiesSync(l)) <= MaxLen
    /\ ls' = l
    /\ last' = [call |-> call, ret |-> ret]
    /\ ui' = u
    /\ UNCHANGED <<backend, authed, offline, doc, now, tz, inflight>>

\* a navigation button: showSection('activity-entry')
ShowActivityEntry ==
    LET actions == getActionsSync(ls)
    IN  Handled(Call("showSection"), getActionsSyncLs(ls), RUndef,
                [ui EXCEPT !.formAction = generatedForm(actions, firstOption(actions)),
                           !.opened = ""])

\* a navigation button: showSection('history')
ShowHistory ==
    Handled([Call("showSection") EXCEPT !.id = "history"], getActionsSyncLs(ls), RUndef,
            [ui EXCEPT !.opened = ""])

\* the user selects another action: generateActionForm
ChangeAction ==
    LET actions == getActionsSync(ls)
    IN  \E selected \in {actions[i].id : i \in 1..Len(actions)} \ {ui.formAction} :
            Handled([Call("generateActionForm") EXCEPT !.id = selected],
                    getActionsSyncLs(ls), RUndef,
                    [ui EXCEPT !.formAction = generatedForm(actions, selected),
                               !.opened = ""])

\* the edit button of a listed activity: showEditActivityForm
EditActivity ==
    LET activities == getActivitiesSync(ls)
        actions == getActionsSync(ls)
    IN  \E i \in 1..Len(activities) :
            LET activity == activities[i]
                found == /\ Has(activity, "actionId")
                         /\ FindIndex(actions, activity.actionId) # 0
            IN  Handled([Call("showEditActivityForm") EXCEPT !.id = activity.id],
                        getActionsSyncLs(ls), RUndef,
                        IF found
                        THEN [ui EXCEPT !.editingActivity = activity.id,
                                        !.formAction = generatedForm(actions, activity.actionId),
                                        !.opened = activity.id]
                        ELSE ui)

\* the form is submitted: handleActivitySubmit
SubmitActivityForm ==
    /\ ui.formAction # ""
    /\ LET actions == getActionsSync(ls)
           l == getActionsSyncLs(ls)
           index == FindIndex(actions, ui.formAction)
           activity == collected(actions[index], LocalDay(now, tz))
       IN  IF index = 0
           THEN Handled(Call("handleActivitySubmit"), l, RThrow, ui)
           ELSE IF ui.editingActivity # ""
           THEN LET r == updateActivitySync(l, ui.editingActivity, activity)
                IN  Handled([Call("updateActivity") EXCEPT !.id = ui.editingActivity,
                                                           !.arg = activity],
                            r.ls, r.ret, [ui EXCEPT !.editingActivity = "", !.opened = ""])
           ELSE LET r == addActivitySync(l, now, activity)
                IN  Handled([Call("addActivity") EXCEPT !.arg = activity],
                            r.ls, r.ret, [ui EXCEPT !.opened = ""])

InitSyncUI == Init /\ backend = "sync"

NextActivityForm ==
    \/ Tick
    \/ ShowActivityEntry
    \/ ShowHistory
    \/ ChangeAction
    \/ EditActivity
    \/ SubmitActivityForm

SpecActivityForm == InitSyncUI /\ [][NextActivityForm]_vars

----------------------------------------------------------------------------
(* Both UIs: the action form of the admin section *)

\* the asynchronous UI is initialized once a user is signed in
InitUI ==
    /\ backend \in {"sync", "async"}
    /\ authed = (backend = "async")
    /\ offline = 0
    /\ ls = [activities |-> Absent, actions |-> Absent]
    /\ doc = NoDoc
    /\ now = 0
    /\ tz = 0
    /\ last = [call |-> Call("init"), ret |-> RUndef]
    /\ ui = NoUI
    /\ inflight = <<>>

\* a handler of either UI returns
HandledOn(call, l, d, ret, u) ==
    /\ Fits(l, d)
    /\ ls' = l
    /\ doc' = d
    /\ last' = [call |-> call, ret |-> ret]
    /\ ui' = u
    /\ UNCHANGED <<backend, authed, offline, now, tz, inflight>>

\* localStorage after a Storage.getActions() of the backend in use
AfterGetActions == IF backend = "sync" THEN getActionsSyncLs(ls) ELSE ls

\* 'Add New Action': the synchronous showAddActionForm forgets the pending
\* edit, the asynchronous one only resets and shows the form
ShowAddActionForm ==
    /\ ui.openedAs # "add"
    /\ HandledOn(Call("showAddActionForm"), ls, doc, RUndef,
                 [ui EXCEPT !.editingAction = IF backend = "sync" THEN "" ELSE @,
                            !.actionForm = "shown",
                            !.openedAs = "add"])

\* the edit button of a listed action
ShowEditActionForm ==
    \E id \in {Actions[i].id : i \in 1..Len(Actions)} :
        HandledOn([Call("showEditActionForm") EXCEPT !.id = id], AfterGetActions, doc, RUndef,
                  [ui EXCEPT !.editingAction = id,
                             !.actionForm = "shown",
                             !.openedAs = "edit"])

\* the cancel button: the synchronous hideActionForm forgets the pending
\* edit, the asynchronous one only hides the form
HideActionForm ==
    /\ ui.actionForm = "shown"
    /\ HandledOn(Call("hideActionForm"), ls, doc, RUndef,
                 [ui EXCEPT !.editingAction = IF backend = "sync" THEN "" ELSE @,
                            !.actionForm = "hidden",
                            !.openedAs = ""])

\* what handleActionFormSubmit reads from the form
actionFromForm ==
    IF backend = "sync"
    THEN [name |-> "Read", type |-> "good", category |-> "", fields |-> <<"notes">>]
    ELSE [name |-> "Read", type |-> "good", fields |-> <<"notes">>]

\* the action form is submitted: handleActionFormSubmit
SubmitActionForm ==
    /\ ui.actionForm = "shown"
    /\ LET action == actionFromForm
           closed == [ui EXCEPT !.editingAction = "", !.actionForm = "hidden",
                                !.openedAs = ""]
       IN  IF ui.editingAction # ""
           THEN LET r == IF backend = "sync"
                         THEN [doc |-> doc] @@ updateActionSync(ls, ui.editingAction, action)
                         ELSE updateActionAsync(ls, doc, authed, ui.editingAction, action)
                IN  HandledOn([Call("updateAction") EXCEPT !.id = ui.editingAction,
                                                           !.arg = action],
                              r.ls, r.doc, r.ret, closed)
           ELSE LET r == IF backend = "sync"
                         THEN [doc |-> doc] @@ addActionSync(ls, now, action)
                         ELSE addActionAsync(ls, doc, authed, now, action)
                IN  HandledOn([Call("addAction") EXCEPT !.arg = action],
                              r.ls, r.doc, r.ret, closed)

NextActionForm ==
    \/ Tick
    \/ ShowAddActionForm
    \/ ShowEditActionForm
    \/ HideActionForm
    \/ SubmitActionForm

SpecActionForm == InitUI /\ [][NextActionForm]_vars

----------------------------------------------------------------------------
(* Both UIs: the import form of the admin section *)

\* what JSON.parse makes of the selected file: the three payloads that are
\* objects, or no value when the text is not JSON
Unparsable == [unparsable |-> TRUE]
FileContents == {FullPayload, NoActionsPayload, NoActivitiesPayload, Unparsable}

\* the test of handleFileSelect: !data.activities || !data.actions
PassesFileCheck(data) == Has(data, "activities") /\ Has(data, "actions")

\* a file is selected and read: the synchronous handleFileSelect keeps the
\* parsed data only when it passes the test, the asynchronous one assigns it
\* to currentImportData and tests afterwards
SelectFile ==
    \E file \in FileContents :
        LET call == [Call("handleFileSelect") EXCEPT !.file = file]
        IN  IF file = Unparsable
            THEN HandledOn(call, ls, doc, RUndef, ui)
            ELSE IF PassesFileCheck(file)
            THEN HandledOn(call, ls, doc, RUndef,
                           [ui EXCEPT !.importData = file, !.importShown = TRUE])
            ELSE HandledOn(call, ls, doc, RUndef,
                           [ui EXCEPT !.importData = IF backend = "sync" THEN @ ELSE file])

\* the confirm button of the import options: handleImportConfirm
ConfirmImport ==
    /\ ui.importShown
    /\ \E replace \in BOOLEAN :
          IF ui.importData = NoArg
          THEN HandledOn(Call("handleImportConfirm"), ls, doc, RUndef, ui)
          ELSE LET call == [Call("importData") EXCEPT !.arg = ui.importData,
                                                      !.replace = replace,
                                                      !.src = "file"]
               IN  IF backend = "sync"
                   THEN LET r == importDataSync(ls, ui.importData, replace)
                        IN  HandledOn(call, r.ls, doc, r.ret,
                                      [ui EXCEPT !.importData = NoArg,
                                                 !.importShown = FALSE])
                   ELSE LET r == importDataAsync(ls, doc, authed, ui.importData, ~replace)
                        IN  HandledOn(call, r.ls, r.doc, r.ret,
                                      [ui EXCEPT !.importShown =
                                                    IF r.ret = RThrow THEN @ ELSE FALSE])

\* the cancel button of the import options
CancelImport ==
    /\ ui.importShown
    /\ HandledOn(Call("cancelImport"), ls, doc, RUndef,
                 [ui EXCEPT !.importData = NoArg, !.importShown = FALSE])

NextImportForm ==
    \/ Tick
    \/ SelectFile
    \/ ConfirmImport
    \/ CancelImport

SpecImportForm == InitUI /\ [][NextImportForm]_vars

----------------------------------------------------------------------------
(* The asynchronous UI: Storage calls that overlap *)
(* Every handler is an async function and no control is disabled while one  *)
(* is suspended, so an event can start a handler while the Storage call of  *)
(* an earlier one waits for getDoc or setDoc.                               *)

MaxInflight == 2      \* Storage calls in flight at once

InitOverlap == InitUI /\ backend = "async"

\* a Storage call that waits for its getDoc
Reading(call) == [call |-> call, phase |-> "reading", snap |-> NoDoc, at |-> 0]

Start(call) ==
    /\ Len(inflight) < MaxInflight
    /\ inflight' = Append(inflight, Reading(call))
    /\ UNCHANGED <<backend, authed, offline, ls, doc, now, tz, last, ui>>

\* the action form is submitted with no edit pending
StartAddAction ==
    /\ Len(Actions) < MaxLen
    /\ Start([Call("addAction") EXCEPT !.arg = actionFromForm])

\* the activity form is submitted for an action the select lists
StartAddActivity ==
    \E a \in {Actions[i].id : i \in 1..Len(Actions)} :
        Start([Call("addActivity") EXCEPT
                  !.arg = [actionId |-> a, date |-> LocalDay(now, tz)]])

\* the delete button of a listed activity
StartDeleteActivity ==
    \E id \in {Activities[i].id : i \in 1..Len(Activities)} :
        Start([Call("deleteActivity") EXCEPT !.id = id])

\* getDoc resolves: the call has its snapshot, computes what it will write
\* (an id from Date.now()) and waits for its setDoc
ReadDone ==
    \E i \in 1..Len(inflight) :
        /\ inflight[i].phase = "reading"
        /\ inflight' = [inflight EXCEPT ![i] = [@ EXCEPT !.phase = "writing",
                                                         !.snap = doc,
                                                         !.at = now]]
        /\ UNCHANGED <<backend, authed, offline, ls, doc, now, tz, last, ui>>

\* what the call passes to persist, and what it returns
OnSnapshot(c) == AsyncOutcome(c.call, ls, c.snap, c.at)
PersistArg(c) == [k \in Writes(c.call.op) |-> OnSnapshot(c).doc.data[k]]

RemoveAt(s, i) == SubSeq(s, 1, i - 1) \o SubSeq(s, i + 1, Len(s))

\* setDoc resolves: the document takes the written field, the cache is
\* updated and the call returns
WriteDone ==
    \E i \in 1..Len(inflight) :
        /\ inflight[i].phase = "writing"
        /\ LET c == inflight[i]
               p == persist(ls, doc, TRUE, PersistArg(c))
           IN  /\ Fits(p.ls, p.doc)
               /\ ls' = p.ls
               /\ doc' = p.doc
               /\ last' = [call |-> c.call, ret |-> OnSnapshot(c).ret]
        /\ inflight' = RemoveAt(inflight, i)
        /\ UNCHANGED <<backend, authed, offline, now, tz, ui>>

NextOverlap ==
    \/ Tick
    \/ StartAddAction
    \/ StartAddActivity
    \/ StartDeleteActivity
    \/ ReadDone
    \/ WriteDone

SpecOverlap == InitOverlap /\ [][NextOverlap]_vars

----------------------------------------------------------------------------
(* Properties of the Storage contract *)

\* the step is a call of op (the clock does not move during a call)
Called(op) == last'.call.op = op /\ now' = now

RetIs(r, b) == r.kind = "boolean" /\ r.val = b

\* some stored Activity has actionId === id
Referenced(activities, id) ==
    \E i \in 1..Len(activities) : FieldIs(activities[i], "actionId", id)

\* the payload carries both sequences
ValidPayload(data) ==
    ~Has(data, "undefined") /\ Has(data, "activities") /\ Has(data, "actions")

\* C1: deleteAction(id) returns false and leaves both collections unchanged
\* whenever a stored Activity has actionId equal to id; otherwise it removes
\* the Action with that id and returns true.  Both backends.
C1_DeleteActionRefusedWhenReferenced ==
    [][ Called("deleteAction") =>
          LET id == last'.call.id
              Keep(a) == ~FieldIs(a, "id", id)
          IN  IF Referenced(Activities, id)
              THEN /\ RetIs(last'.ret, FALSE)
                   /\ Activities' = Activities
                   /\ Actions' = Actions
              ELSE /\ RetIs(last'.ret, TRUE)
                   /\ Actions' = SelectSeq(Actions, Keep) ]_vars

\* C2: after updateActivity(i, patch) every stored Activity with id i still
\* has id i and the timestamp it had before the call, whatever the patch
\* carries.  Both backends.
C2_UpdateActivityPinsIdAndTimestamp ==
    [][ Called("updateActivity") =>
          /\ Len(Activities') = Len(Activities)
          /\ \A i \in 1..Len(Activities) :
                FieldIs(Activities[i], "id", last'.call.id) =>
                    /\ FieldIs(Activities'[i], "id", last'.call.id)
                    /\ Has(Activities'[i], "timestamp") = Has(Activities[i], "timestamp")
                    /\ Has(Activities[i], "timestamp") =>
                          Activities'[i].timestamp = Activities[i].timestamp ]_vars

\* C3: importData, in replace or merge mode, with a payload that lacks the
\* activities sequence or the actions sequence returns false and changes
\* neither collection.  Both backends.
C3_ImportRejectsIncompletePayload ==
    [][ ( /\ Called("importData")
          /\ ~Has(last'.call.arg, "undefined")
          /\ ~ValidPayload(last'.call.arg) ) =>
          /\ RetIs(last'.ret, FALSE)
          /\ Activities' = Activities
          /\ Actions' = Actions ]_vars

\* C4: importing a valid payload a second time in merge mode leaves both
\* collections as the first import left them.  Both backends.
C4_MergeImportIdempotent ==
    [][ ( /\ last.call.op = "importData"
          /\ ~last.call.replace
          /\ ValidPayload(last.call.arg)
          /\ Called("importData")
          /\ last'.call.arg = last.call.arg
          /\ ~last'.call.replace ) =>
          /\ Activities' = Activities
          /\ Actions' = Actions ]_vars

\* C5: a merge-mode importData keeps every stored Action and Activity in place
\* and appends exactly the incoming records whose id is not yet in the
\* corresponding collection.  Both backends.
C5_MergeImportAppendsOnlyNewIds ==
    [][ ( /\ Called("importData")
          /\ ~last'.call.replace
          /\ ValidPayload(last'.call.arg) ) =>
          LET NewActivity(a) == ~IncludesId(Activities, a)
              NewAction(a) == ~IncludesId(Actions, a)
          IN  /\ Activities' = Activities \o SelectSeq(last'.call.arg.activities, NewActivity)
              /\ Actions' = Actions \o SelectSeq(last'.call.arg.actions, NewAction) ]_vars

\* C6: passing what exportData() returned to importData in replace mode
\* succeeds and leaves both collections as they were at the export.  Both
\* backends.
C6_ExportImportRoundTrip ==
    [][ ( /\ Called("importData")
          /\ last'.call.replace
          /\ last'.call.src = "export" ) =>
          /\ RetIs(last'.ret, TRUE)
          /\ Activities' = Activities
          /\ Actions' = Actions ]_vars

\* no two records of the sequence have the same id
UniqueIds(s) ==
    \A i, j \in 1..Len(s) : (i # j) => ~SameId(s[i], s[j])

\* C11: the record an addActivity or addAction call stores has an id that no
\* record already in that collection has, also when two adds fall into the
\* same clock millisecond.  Both backends.
C11_AddAssignsFreshId ==
    [][ /\ Called("addActivity") => ~IncludesId(Activities, last'.ret.val)
        /\ Called("addAction") => ~IncludesId(Actions, last'.ret.val) ]_vars

\* C12: in every reachable state no two Actions share an id and no two
\* Activities share an id (the payloads imported have unique ids).
C12_IdsUnique ==
    UniqueIds(Activities) /\ UniqueIds(Actions)

\* C13: for a stored Action with id i, updateAction(i, patch) stores and
\* returns the merge of patch over the record with id still i, and leaves
\* every other Action as it was.  Both backends.
C13_UpdateActionMergesAndPinsId ==
    [][ ( /\ Called("updateAction")
          /\ FindIndex(Actions, last'.call.id) # 0 ) =>
          LET id == last'.call.id
              index == FindIndex(Actions, id)
              merged == Spread(Spread(Actions[index], last'.call.arg), [id |-> id])
          IN  /\ last'.ret = RObj(merged)
              /\ Actions' = [Actions EXCEPT ![index] = merged] ]_vars

\* neither localStorage nor the remote document has an actions entry
EmptyActionStore ==
    /\ ~ls.actions.present
    /\ ~(doc.exists /\ Has(doc.data, "actions"))

\* C14: getActions() on an empty backing store returns the four default
\* actions and has persisted them; any getActions() call returns the stored
\* catalog and leaves it as it is.  Both backends.
C14_GetActionsSeedsDefaults ==
    [][ Called("getActions") =>
          /\ EmptyActionStore =>
                /\ last'.ret = RObj(defaultActions)
                /\ ~EmptyActionStore'
          /\ last'.ret = RObj(Actions')
          /\ Actions' = Actions ]_vars

\* C15: after clearAllData() the activities collection and the actions
\* collection are both empty.  Both backends.
C15_ClearEmptiesBothCollections ==
    [][ Called("clearAllData") =>
          /\ Activities' = <<>>
          /\ Actions' = <<>> ]_vars

\* C16: updateAction, updateActivity, deleteAction and deleteActivity with an
\* id that matches no stored record leave both collections unchanged, do not
\* raise, and return null (the updates) or false (deleteAction).  Both
\* backends.
C16_NotFoundIsSilentNoOp ==
    [][ /\ ( /\ \/ Called("updateActivity")
                 \/ Called("deleteActivity")
              /\ FindIndex(Activities, last'.call.id) = 0 ) =>
              /\ Activities' = Activities
              /\ Actions' = Actions
              /\ last'.ret.kind # "throw"
              /\ Called("updateActivity") => last'.ret = RNull
        /\ ( /\ \/ Called("updateAction")
                 \/ Called("deleteAction")
              /\ FindIndex(Actions, last'.call.id) = 0 ) =>
              /\ Activities' = Activities
              /\ Actions' = Actions
              /\ Called("updateAction") => last'.ret = RNull
              /\ Called("deleteAction") => RetIs(last'.ret, FALSE) ]_vars

\* a remote document that holds the two collections
DocOf(activities, actions) ==
    [exists |-> TRUE, data |-> [activities |-> activities, actions |-> actions]]

\* C17: from the same collections, a store operation with the same arguments
\* returns the same value and leaves the same collections on the asynchronous
\* backend (signed in, no I/O failure) as it does on the synchronous one.
C17_BackendsInterchangeable ==
    [][ ( /\ backend = "sync"
          /\ \E op \in StoreOps : Called(op) ) =>
          LET r == AsyncOutcome(last'.call, ls, DocOf(Activities, Actions), now)
          IN  /\ r.ret = last'.ret
              /\ getActivitiesAsync(r.ls, r.doc, TRUE) = Activities'
              /\ getActionsAsync(r.ls, r.doc, TRUE) = Actions' ]_vars

\* collection c as a read with a session (the document) and a read without
\* one (the cache) return it
ReadOf(l, d, c, user) ==
    IF c = "activities" THEN getActivitiesAsync(l, d, user) ELSE getActionsAsync(l, d, user)

\* the cache entry of collection c equals what the document holds
Mirrored(l, d, c) == ReadOf(l, d, c, FALSE) = ReadOf(l, d, c, TRUE)

\* C18 as stated: when any mutating call of a signed-in session completes,
\* the remote document holds the call's collection and the cache entry of
\* that collection equals it.  Asynchronous backend.
C18_EveryMutatingCallMirrors ==
    [][ ( /\ backend = "async"
          /\ authed
          /\ \E op \in MutatingOps : Called(op)
          /\ last'.ret.kind # "throw" ) =>
          \A c \in Writes(last'.call.op) : Mirrored(ls', doc', c) ]_vars

\* C18 amended: when a mutating call of a signed-in session that writes (any
\* but an update whose id matches no stored record) completes, the remote
\* document holds the call's collection, the cache entry of that collection
\* equals it, and a read without a session returns it.  Asynchronous backend.
C18_WritingCallMirrors ==
    [][ ( /\ backend = "async"
          /\ authed
          /\ \E op \in MutatingOps : Called(op)
          /\ last'.ret.kind # "throw"
          /\ UpdateFinds(last'.call) ) =>
          \A c \in Writes(last'.call.op) : Mirrored(ls', doc', c) ]_vars

\* a signed-in addActivity call has written the document and the cache
C18_Witness ==
    /\ backend = "async"
    /\ authed
    /\ last.call.op = "addActivity"
    /\ Mirrored(ls, doc, "activities")
    /\ doc.exists
    /\ Len(doc.data.activities) = 1

\* C19: when the remote write of a mutating call fails, the call is rejected
\* and the remote document and the local cache hold what they held before the
\* call.  Asynchronous backend.
C19_FailedWriteLeavesStore ==
    [][ ( /\ \E op \in MutatingOps : Called(op)
          /\ last'.call.io = "setDoc rejects" ) =>
          /\ last'.ret = RThrow
          /\ ls' = ls
          /\ doc' = doc ]_vars

\* a replace import was rejected; the document and a differing cache are there
C19_Witness ==
    /\ last.call.op = "importData"
    /\ last.call.replace
    /\ last.call.io = "setDoc rejects"
    /\ last.ret = RThrow
    /\ doc.exists
    /\ Len(ReadOf(ls, doc, "activities", TRUE)) = 2
    /\ ~Mirrored(ls, doc, "actions")

\* C24: deleteActivity(id) removes exactly the Activities whose id is id:
\* the others stay, with their content and in their order, and the actions
\* collection is unchanged.  Both backends.
C24_DeleteActivityRemovesExactly ==
    [][ Called("deleteActivity") =>
          LET Other(a) == ~FieldIs(a, "id", last'.call.id)
          IN  /\ Activities' = SelectSeq(Activities, Other)
              /\ Actions' = Actions ]_vars

\* deleteActivity('1') has returned and the activity with id '0' is still stored
C24_Witness ==
    /\ last.call.op = "deleteActivity"
    /\ last.call.id = "1"
    /\ Len(Activities) = 1
    /\ Activities[1].id = "0"
    /\ Len(Actions) > 0

\* C20: the Activity that addActivity or updateActivity stores has the id of
\* an Action of the actions collection as its actionId.  Both backends.
C20_StoredActivityReferencesAction ==
    [][ ( /\ \/ Called("addActivity")
             \/ Called("updateActivity")
          /\ Activities' # Activities ) =>
          \A i \in 1..Len(Activities') :
              (i > Len(Activities) \/ Activities'[i] # Activities[i]) =>
                  /\ Has(Activities'[i], "actionId")
                  /\ FindIndex(Actions, Activities'[i].actionId) # 0 ]_vars

----------------------------------------------------------------------------
(* Properties of the Analytics functions *)

\* the last call was op, made at the present instant
JustComputed(op) == last.call.op = op /\ last.call.at = now

Today == LocalDay(now, tz)

\* the dates on which the action was performed
MatchingDates(actionId) ==
    {Activities[i].date :
        i \in {j \in 1..Len(Activities) :
                  /\ Has(Activities[j], "date")
                  /\ \/ FieldIs(Activities[j], "actionId", actionId)
                     \/ (actionId = "exercise" /\ FieldIs(Activities[j], "type", "exercise"))}}

MostRecent(D) == CHOOSE d \in D : \A e \in D : e <= d

\* the number of consecutive days in D that end with day
RunEndingAt(D, day) ==
    CHOOSE k \in 0..Cardinality(D) :
        /\ \A i \in 0..(k - 1) : (day - i) \in D
        /\ (day - k) \notin D

\* C7: when the most recent matching date is today, calculateActionStreak
\* returns the length of the maximal run of consecutive calendar days with a
\* matching activity that ends today.
C7_StreakIsRunEndingToday ==
    JustComputed("calculateActionStreak") =>
        LET D == MatchingDates(last.call.id)
        IN  (D # {} /\ MostRecent(D) = Today) =>
                last.ret.val = RunEndingAt(D, Today)

\* a streak of 2 ending today was returned although 3 days have a matching activity
C7_Witness ==
    /\ JustComputed("calculateActionStreak")
    /\ LET D == MatchingDates(last.call.id)
       IN  /\ D # {}
           /\ MostRecent(D) = Today
           /\ Cardinality(D) = 3
           /\ last.ret.val = 2

\* C8: when the most recent matching date is neither today nor yesterday
\* (also when it lies after today), calculateActionStreak returns 0.
C8_StreakZeroUnlessTodayOrYesterday ==
    JustComputed("calculateActionStreak") =>
        LET D == MatchingDates(last.call.id)
        IN  (D # {} /\ MostRecent(D) \notin {Today, Today - 1}) =>
                last.ret.val = 0

DaysSince(activities, actionId, t) ==
    calculateDaysSinceLastOccurrence(activities, actionId, t, tz)

\* C9: with the collection fixed, calculateDaysSinceLastOccurrence does not
\* decrease as the clock advances; and right after addActivity stores a
\* matching activity dated today it is 0, whatever was stored before.
C9_DaysSinceMonotoneAndResets ==
    [][ /\ (ls' = ls /\ now' > now) =>
              \A actionId \in AnalyticsActionIds :
                  DaysSince(Activities, actionId, now') >= DaysSince(Activities, actionId, now)
        /\ (Called("addActivity") /\ ls' # ls /\ last'.call.arg.date = Today) =>
              DaysSince(Activities', last'.call.arg.actionId, now) = 0 ]_vars

\* the activities counted under key that are dated back days before today
DatedBack(key, back) ==
    Cardinality({i \in 1..Len(Activities) :
                    /\ countKey(Activities[i]) = key
                    /\ Has(Activities[i], "date")
                    /\ Activities[i].date = Today - back})

WithKey(key) ==
    Cardinality({i \in 1..Len(Activities) : countKey(Activities[i]) = key})

CountOf(counts, key) == IF key \in DOMAIN counts THEN counts[key] ELSE 0

\* C10: whatever the time of day, getActivityCountsLast30Days counts an
\* activity dated exactly 30 days before today under its action id, and does
\* not count one dated 31 days before today.
C10_WindowBoundary ==
    JustComputed("getActivityCountsLast30Days") =>
        \A key \in {countKey(Activities[i]) : i \in 1..Len(Activities)} :
            /\ CountOf(last.ret.val, key) >= DatedBack(key, WindowDays)
            /\ CountOf(last.ret.val, key) <= WithKey(key) - DatedBack(key, WindowDays + 1)

----------------------------------------------------------------------------
(* Properties of the dashboard *)

AnalyticsOps ==
    {"calculateActionStreak", "calculateDaysSinceLastOccurrence", "getGoodHabitActions",
     "getBadHabitActions", "getActivityCountsLast30Days", "calculateAverageWorkHours"}

\* C21: a call of any Analytics function leaves what localStorage holds of
\* the actions and the activities exactly as it was, also when the actions
\* entry has never been written.
C21_AnalyticsNeverWrite ==
    [][ (\E op \in AnalyticsOps : Called(op)) => ls' = ls ]_vars

\* C22: every Analytics function returns without raising, whatever the
\* activities stored; with no activity stored the result is 0, or the empty
\* mapping for the 30-day counts.
C22_AnalyticsNeverRaise ==
    (last.call.op \in AnalyticsOps) =>
        /\ last.ret.kind # "throw"
        /\ (Activities = <<>> /\ last.ret.kind = "number") => last.ret.val = 0
        /\ (Activities = <<>> /\ last.call.op = "getActivityCountsLast30Days") =>
              DOMAIN last.ret.val = {}

----------------------------------------------------------------------------
(* Properties of legacy activities *)

\* a record without actionId
Legacy(activity) == ~Truthy(activity, "actionId")

\* the action a legacy record refers to through its type
LegacyActionOf(activity) ==
    IF FieldIs(activity, "type", "exercise") THEN "exercise"
    ELSE IF FieldIs(activity, "type", "work") THEN "work"
    ELSE IF FieldIs(activity, "type", "diet")
         THEN IF FieldIs(activity, "foodQuality", "healthy")
              THEN "diet-healthy" ELSE "diet-unhealthy"
    ELSE ""

\* C23: deleteAction(id) returns false and changes nothing whenever a stored
\* legacy Activity refers to the action through its type: exercise to
\* 'exercise', work to 'work', diet to 'diet-healthy' or 'diet-unhealthy' by
\* its foodQuality.
C23_DeleteRefusedForLegacyReference ==
    [][ ( /\ Called("deleteAction")
          /\ \E i \in 1..Len(Activities) :
                /\ Legacy(Activities[i])
                /\ LegacyActionOf(Activities[i]) = last'.call.id ) =>
          /\ RetIs(last'.ret, FALSE)
          /\ Activities' = Activities
          /\ Actions' = Actions ]_vars

\* C26: migrateData leaves every record that carries an actionId unchanged,
\* gives each legacy record of type exercise, diet or work the actionId of its
\* type, and run a second time changes nothing in the stored collection.
C26_MigrateIdempotentConservative ==
    LET once == migrateData(ls)
        after == getActivitiesSync(once)
    IN  /\ Len(after) = Len(Activities)
        /\ \A i \in 1..Len(Activities) :
              IF Legacy(Activities[i]) /\ LegacyActionOf(Activities[i]) # ""
              THEN after[i] = Spread(Activities[i],
                                     [actionId |-> LegacyActionOf(Activities[i])])
              ELSE after[i] = Activities[i]
        /\ getActivitiesSync(migrateData(once)) = after

\* the page was loaded over a legacy diet record and a record with an actionId
C26_Witness ==
    /\ last.call.op = "load"
    /\ Len(Activities) = 2
    /\ Activities[1].id = "L2"
    /\ FieldIs(Activities[1], "actionId", "diet-healthy")
    /\ Activities[2].id = "M1"
    /\ FieldIs(Activities[2], "actionId", "work")

----------------------------------------------------------------------------
(* Properties of the forms of the UI *)

\* C27: a submit updates a stored Activity only if the user opened that
\* Activity for editing and has neither changed the action nor left the form
\* since; so the update never gives the Activity another actionId.
\* Synchronous UI.
C27_SubmitUpdatesOnlyOpenedActivity ==
    [][ Called("updateActivity") =>
          /\ ui.opened = last'.call.id
          /\ \A i \in 1..Len(Activities) :
                FieldIs(Activities[i], "id", last'.call.id) =>
                    FieldIs(Activities[i], "actionId", last'.call.arg.actionId) ]_vars

\* C28: a submit of the action form that follows opening it with 'Add New
\* Action' adds a new Action and leaves every Action that exists as it is.
\* Both UIs.
C28_SubmitAfterAddNewAdds ==
    [][ ( /\ Called("updateAction") \/ Called("addAction")
          /\ ui.openedAs = "add" ) =>
          /\ last'.call.op = "addAction"
          /\ Len(Actions') = Len(Actions) + 1
          /\ \A i \in 1..Len(Actions) : Actions'[i] = Actions[i] ]_vars

\* C30: Storage.importData is only called with a payload that has both
\* activities and actions, and after a confirm or a cancel the pending-import
\* buffer is empty.  Both UIs.
C30_ImportsOnlyValidatedOnce ==
    [][ /\ Called("importData") => /\ ValidPayload(last'.call.arg)
                                   /\ ui'.importData = NoArg
        /\ Called("cancelImport") => ui'.importData = NoArg ]_vars

----------------------------------------------------------------------------
(* Properties of overlapping calls *)

\* C25: in the asynchronous UI at most one mutating Storage call is in
\* flight at any time.
C25_OneMutatingCallInFlight ==
    \A i, j \in 1..Len(inflight) :
        (inflight[i].call.op \in MutatingOps /\ inflight[j].call.op \in MutatingOps)
            => i = j

\* a call in flight returns
Completed(op) == Len(inflight') < Len(inflight) /\ last'.call.op = op

\* C29: no completed add or delete is lost when calls overlap: when an
\* addActivity completes, the stored collection is the one stored before
\* with the new record appended, and when a deleteActivity completes it is
\* the one stored before without the records of that id.
C29_OverlapLosesNoUpdate ==
    [][ /\ Completed("addActivity") =>
              Activities' = Append(Activities, last'.ret.val)
        /\ Completed("deleteActivity") =>
              LET Keep(a) == ~FieldIs(a, "id", last'.call.id)
              IN  Activities' = SelectSeq(Activities, Keep) ]_vars

====
